---- MODULE Spec2Model ----
(***************************************************************************)
(* Model of packages/lntools-noise/lib/noise-state.ts: the NoiseState      *)
(* handshake (Noise_XK_secp256k1_ChaChaPoly_SHA256, BOLT #8) and its       *)
(* transport cipher with key rotation.                                     *)
(*                                                                         *)
(* Buffers are terms.  Every term is a tuple whose first element names its *)
(* constructor; the primitives of @lntools/crypto are free constructors    *)
(* (perfect cryptography), except ecdh, which is symmetric in the two      *)
(* key pairs.                                                              *)
(***************************************************************************)
EXTENDS Integers, Sequences, FiniteSets, TLC

VARIABLES
  ns,      \* [Peers -> NoiseState]: the two NoiseState objects
  net,     \* messages returned by one side and not yet consumed by the other
  drv,     \* [Peers -> ...]: the position of each object's caller
  last,    \* the last method call: peer, method, error thrown, value returned
  uses,    \* [Peers -> ...]: AEAD uses of the transport keys, as observed
  lsReads  \* [Peers -> set of methods that evaluated this.ls]

vars == <<ns, net, drv, last, uses, lsReads>>

Peers == {"I", "R"}

Other(p) == IF p = "I" THEN "R" ELSE "I"

----------------------------------------------------------------------------
(* Bounds of the model *)

\* private keys are 1..MaxKey
MaxKey == 2
\* frames a side may have sent and the other side not yet decrypted
MaxInFlight == 1
\* calls of encryptMessage per side in SpecMisuse
MaxSends == 2
\* calls of encryptMessage in SpecOneWay: enough for two rotations
MaxFrames == 1001
\* calls of encryptMessage per side in SpecDuplex: enough for one rotation
MaxDuplexFrames == 501
\* frames a side may have sent more than the other side in SpecDuplex
MaxLead == 1
\* calls made out of the protocol's order in SpecMisuse
MaxMisuse == 2
\* frames the sender of SpecStream encrypts
MaxStreamFrames == 2
\* decrypt calls the receiver of SpecStream makes
MaxStreamCalls == 5

----------------------------------------------------------------------------
(* Buffers *)

\* JavaScript's undefined: the value of a field never assigned
Undef == <<"undefined">>

IsUndef(b) == Len(b) = 1

\* Buffer.alloc(n), n small: n zero bytes
alloc(n) == <<"bytes", [i \in 1..n |-> 0]>>

\* Buffer.from([...]) of a byte array
fromBytes(bs) == <<"bytes", bs>>

\* Buffer.from(hex, "hex"): two hex digits (given as their values) per byte
fromHex(digits) ==
  <<"bytes", [i \in 1..(Len(digits) \div 2) |-> 16 * digits[2 * i - 1] + digits[2 * i]]>>

\* a payload of len bytes, each of value b; short ones are explicit bytes
fill(len, b) ==
  IF len <= 12 THEN <<"bytes", [i \in 1..len |-> b]>> ELSE <<"fill", len, b>>

RECURSIVE SumLen(_, _)
RECURSIVE BufLen(_)

\* buf.length
BufLen(b) ==
  CASE b[1] = "bytes"  -> Len(b[2])
    [] b[1] = "fill"   -> b[2]
    [] b[1] = "priv"   -> 32
    [] b[1] = "pub"    -> 33
    [] b[1] = "sha256" -> 32
    [] b[1] = "ecdh"   -> 32
    [] b[1] = "hkdf"   -> 64
    [] b[1] = "slice"  -> b[3] - b[2]
    [] b[1] = "ccp"    -> b[6] + 16
    [] b[1] = "concat" -> SumLen(b[2], Len(b[2]))
    [] b[1] = "str"    -> b[3]
    [] b[1] = "xor"    -> BufLen(b[2])
    [] OTHER           -> 0

\* total length of the first n buffers of a list
SumLen(list, n) == IF n = 0 THEN 0 ELSE SumLen(list, n - 1) + BufLen(list[n])

\* Buffer.concat(list)
concat(list) == <<"concat", list>>

\* buf.slice(start, end): a part of a concatenation when the range is one of
\* its parts, the whole buffer when the range covers it, else a symbolic slice
slice(b, start, end) ==
  IF start = 0 /\ end = BufLen(b) /\ b[1] # "concat" THEN b
  ELSE IF b[1] = "concat" /\
          \E i \in 1..Len(b[2]) :
             SumLen(b[2], i - 1) = start /\ SumLen(b[2], i) = end
       THEN LET i == CHOOSE j \in 1..Len(b[2]) :
                       SumLen(b[2], j - 1) = start /\ SumLen(b[2], j) = end
            IN b[2][i]
       ELSE IF b[1] = "bytes" /\ 0 <= start /\ start <= end /\ end <= Len(b[2])
            THEN <<"bytes", SubSeq(b[2], start + 1, end)>>
            ELSE <<"slice", start, end, b>>

\* buf[0] of a one-byte buffer
readUInt8(b) == IF b[1] = "bytes" /\ Len(b[2]) >= 1 THEN b[2][1] ELSE 255

\* buf.readUInt16LE(offset)
readUInt16LE(b, offset) == b[2][offset + 1] + 256 * b[2][offset + 2]

\* buf.writeUInt16LE(value, offset), value <= 65535
writeUInt16LE(b, value, offset) ==
  <<"bytes", [b[2] EXCEPT ![offset + 1] = value % 256,
                          ![offset + 2] = (value \div 256) % 256]>>

\* l = Buffer.alloc(2); l.writeUInt16BE(value, 0)
writeUInt16BE(value) == <<"bytes", <<(value \div 256) % 256, value % 256>>>>

\* buf.readUInt16BE(0) can be read: the buffer holds two bytes at least
canReadUInt16BE(b) == b[1] \in {"bytes", "fill"} /\ BufLen(b) >= 2

\* buf.readUInt16BE(0)
readUInt16BE(b) ==
  IF b[1] = "bytes" THEN 256 * b[2][1] + b[2][2] ELSE 256 * b[3] + b[3]

----------------------------------------------------------------------------
(* The primitives of @lntools/crypto *)

priv(k) == <<"priv", k>>

\* getPublicKey(priv): the compressed public key, 33 bytes
getPublicKey(s) == <<"pub", s[2]>>

IsPub(b) == b[1] = "pub"

sha256(b) == <<"sha256", b>>

\* ecdh(pub, priv): the same secret from either key pair's side
ecdh(pub, s) ==
  <<"ecdh", IF pub[2] <= s[2] THEN pub[2] ELSE s[2],
            IF pub[2] <= s[2] THEN s[2] ELSE pub[2]>>

\* hkdf(salt, ikm): 64 bytes
hkdf(salt, ikm) == <<"hkdf", salt, ikm>>

\* ccpEncrypt(key, nonce, ad, plaintext): ciphertext and 16-byte tag
ccpEncrypt(k, n, ad, pt) == <<"ccp", k, n, ad, pt, BufLen(pt)>>

\* ccpDecrypt(key, nonce, ad, ciphertext) authenticates
ccpVerify(k, n, ad, c) ==
  /\ c[1] = "ccp"
  /\ c[2] = k
  /\ c[3] = n
  /\ c[4] = ad

\* ccpDecrypt(key, nonce, ad, ciphertext): the plaintext, when it authenticates
ccpDecrypt(k, n, ad, c) == c[5]

TypeError == "TypeError"
RangeError == "RangeError"
EcdhError == "ecdh: public key could not be parsed"
AuthError == "ccpDecrypt: unable to authenticate data"

----------------------------------------------------------------------------
(* class NoiseState *)

\* a rotation every 1000 messages, of two encryptions each
RotateAt_PerMessage == 2 * 1000

\* a rotation at an odd counter value
RotateAt_Odd == 1000 - 1

\* the counter value at which a direction's key is rotated
RotateAt == 1000

protocolName == <<"str", "Noise_XK_secp256k1_ChaChaPoly_SHA256", 36>>

prologue == <<"str", "lightning", 9>>

\* the act 3 nonce of initiatorAct3, Buffer.from([0, 0, 0, 0, 1, 0, ...])
Act3NonceI == fromBytes(<<0, 0, 0, 0, 1, 0, 0, 0, 0, 0, 0, 0>>)

\* the act 3 nonce of receiveAct3, Buffer.from("000000000100000000000000", "hex")
Act3NonceR ==
  fromHex(<<0, 0, 0, 0, 0, 0, 0, 0, 0, 1, 0, 0, 0, 0, 0, 0, 0, 0, 0, 0, 0, 0, 0, 0>>)

\* what a method call does: the object after it, the value returned, the
\* error thrown ("" when it returns), and whether it evaluated this.ls
Ret(o, out, ls) == [st |-> o, out |-> out, err |-> "", ls |-> ls]

Thr(o, err, ls) == [st |-> o, out |-> Undef, err |-> err, ls |-> ls]

\* a number returned by a method
Num(n) == <<"number", n>>

\* constructor({ ls, es })
NoiseState(ls, es) ==
  [ls |-> ls, lpk |-> getPublicKey(ls), es |-> es, epk |-> getPublicKey(es),
   rpk |-> Undef, repk |-> Undef, h |-> Undef, ck |-> Undef,
   rk |-> Undef, sk |-> Undef, sn |-> Undef, rn |-> Undef,
   tempK1 |-> Undef, tempK2 |-> Undef, tempK3 |-> Undef]

\* _initialize with ck = h as its last statement
_initialize_CkIsH(o, pubkey) ==
  LET h1 == sha256(protocolName)
      h2 == sha256(concat(<<h1, prologue>>))
      h3 == sha256(concat(<<h2, pubkey>>))
  IN [o EXCEPT !.ck = h3, !.h = h3]

_initialize(o, pubkey) ==
  LET h1 == sha256(protocolName)
      h2 == sha256(concat(<<h1, prologue>>))
      h3 == sha256(concat(<<h2, pubkey>>))
  IN [o EXCEPT !.ck = h1, !.h = h3]

\* _incrementSendingNonce that writes back the value it read
_incrementSendingNonce_Stuck(o) ==
  [o EXCEPT !.sn = writeUInt16LE(o.sn, readUInt16LE(o.sn, 4), 4)]

_incrementSendingNonce(o) ==
  [o EXCEPT !.sn = writeUInt16LE(o.sn, readUInt16LE(o.sn, 4) + 1, 4)]

\* _incrementRecievingNonce that adds 2
_incrementRecievingNonce_ByTwo(o) ==
  [o EXCEPT !.rn = writeUInt16LE(o.rn, readUInt16LE(o.rn, 4) + 2, 4)]

_incrementRecievingNonce(o) ==
  [o EXCEPT !.rn = writeUInt16LE(o.rn, readUInt16LE(o.rn, 4) + 1, 4)]

\* _rotateSendingKeys that gives the new key to both directions
_rotateSendingKeys_BothKeys(o) ==
  LET result == hkdf(o.ck, o.sk)
  IN [o EXCEPT !.sk = slice(result, 32, 64),
               !.rk = slice(result, 32, 64),
               !.ck = slice(result, 0, 32),
               !.sn = alloc(12)]

_rotateSendingKeys(o) ==
  LET result == hkdf(o.ck, o.sk)
  IN [o EXCEPT !.sk = slice(result, 32, 64),
               !.ck = slice(result, 0, 32),
               !.sn = alloc(12)]

\* _rotateRecievingKeys with the halves of the hkdf output exchanged
_rotateRecievingKeys_Halves(o) ==
  LET result == hkdf(o.ck, o.rk)
  IN [o EXCEPT !.rk = slice(result, 0, 32),
               !.ck = slice(result, 32, 64),
               !.rn = alloc(12)]

_rotateRecievingKeys(o) ==
  LET result == hkdf(o.ck, o.rk)
  IN [o EXCEPT !.rk = slice(result, 32, 64),
               !.ck = slice(result, 0, 32),
               !.rn = alloc(12)]

\* the step with > in place of >=
SendingNonceStep_Late(o) ==
  LET o1 == _incrementSendingNonce(o)
  IN IF readUInt16LE(o1.sn, 4) > RotateAt THEN _rotateSendingKeys(o1) ELSE o1

\* if (this._incrementSendingNonce() >= 1000) this._rotateSendingKeys();
SendingNonceStep(o) ==
  LET o1 == _incrementSendingNonce(o)
  IN IF readUInt16LE(o1.sn, 4) >= RotateAt THEN _rotateSendingKeys(o1) ELSE o1

\* if (this._incrementRecievingNonce() >= 1000) this._rotateRecievingKeys();
RecievingNonceStep(o) ==
  LET o1 == _incrementRecievingNonce(o)
  IN IF readUInt16LE(o1.rn, 4) >= RotateAt THEN _rotateRecievingKeys(o1) ELSE o1

\* initiatorAct1 that sends no version byte
initiatorAct1_NoVersion(o, rpk) ==
  LET o1 == _initialize([o EXCEPT !.rpk = rpk], rpk)
      o2 == [o1 EXCEPT !.h = sha256(concat(<<o1.h, o1.epk>>))]
  IN IF ~IsPub(o2.rpk) THEN Thr(o2, EcdhError, FALSE)
     ELSE
       LET ss == ecdh(o2.rpk, o2.es)
           tempK1 == hkdf(o2.ck, ss)
           o3 == [o2 EXCEPT !.ck = slice(tempK1, 0, 32),
                            !.tempK1 = slice(tempK1, 32, 64)]
           c == ccpEncrypt(o3.tempK1, alloc(12), o3.h, alloc(0))
           o4 == [o3 EXCEPT !.h = sha256(concat(<<o3.h, c>>))]
       IN Ret(o4, concat(<<o4.epk, c>>), FALSE)

initiatorAct1(o, rpk) ==
  LET o1 == _initialize([o EXCEPT !.rpk = rpk], rpk)
      o2 == [o1 EXCEPT !.h = sha256(concat(<<o1.h, o1.epk>>))]
  IN IF ~IsPub(o2.rpk) THEN Thr(o2, EcdhError, FALSE)
     ELSE
       LET ss == ecdh(o2.rpk, o2.es)
           tempK1 == hkdf(o2.ck, ss)
           o3 == [o2 EXCEPT !.ck = slice(tempK1, 0, 32),
                            !.tempK1 = slice(tempK1, 32, 64)]
           c == ccpEncrypt(o3.tempK1, alloc(12), o3.h, alloc(0))
           o4 == [o3 EXCEPT !.h = sha256(concat(<<o3.h, c>>))]
       IN Ret(o4, concat(<<alloc(1), o4.epk, c>>), FALSE)

\* initiatorAct2 that reads the version before it checks the length
initiatorAct2_VersionFirst(o, m) ==
  IF readUInt8(slice(m, 0, 1)) # 0 THEN Thr(o, "ACT2_BAD_VERSION", FALSE)
  ELSE IF BufLen(m) # 50 THEN Thr(o, "ACT2_READ_FAILED", FALSE)
  ELSE
    LET v == readUInt8(slice(m, 0, 1))
        re == slice(m, 1, 34)
        c == slice(m, 34, BufLen(m))
        o1 == [o EXCEPT !.repk = re]
    IN IF v # 0 THEN Thr(o1, "ACT2_BAD_VERSION", FALSE)
       ELSE IF IsUndef(o1.h) THEN Thr(o1, TypeError, FALSE)
       ELSE
         LET o2 == [o1 EXCEPT !.h = sha256(concat(<<o1.h, o1.repk>>))]
         IN IF ~IsPub(o2.repk) THEN Thr(o2, EcdhError, FALSE)
            ELSE
              LET ss == ecdh(o2.repk, o2.es)
                  tempK2 == hkdf(o2.ck, ss)
                  o3 == [o2 EXCEPT !.ck = slice(tempK2, 0, 32),
                                   !.tempK2 = slice(tempK2, 32, 64)]
              IN IF ~ccpVerify(o3.tempK2, alloc(12), o3.h, c)
                 THEN Thr(o3, AuthError, FALSE)
                 ELSE Ret([o3 EXCEPT !.h = sha256(concat(<<o3.h, c>>))],
                          Undef, FALSE)

\* initiatorAct2 without its last step, h = sha256(h || c)
initiatorAct2_NoMix(o, m) ==
  IF BufLen(m) # 50 THEN Thr(o, "ACT2_READ_FAILED", FALSE)
  ELSE
    LET v == readUInt8(slice(m, 0, 1))
        re == slice(m, 1, 34)
        c == slice(m, 34, BufLen(m))
        o1 == [o EXCEPT !.repk = re]
    IN IF v # 0 THEN Thr(o1, "ACT2_BAD_VERSION", FALSE)
       ELSE IF IsUndef(o1.h) THEN Thr(o1, TypeError, FALSE)
       ELSE
         LET o2 == [o1 EXCEPT !.h = sha256(concat(<<o1.h, o1.repk>>))]
         IN IF ~IsPub(o2.repk) THEN Thr(o2, EcdhError, FALSE)
            ELSE
              LET ss == ecdh(o2.repk, o2.es)
                  tempK2 == hkdf(o2.ck, ss)
                  o3 == [o2 EXCEPT !.ck = slice(tempK2, 0, 32),
                                   !.tempK2 = slice(tempK2, 32, 64)]
              IN IF ~ccpVerify(o3.tempK2, alloc(12), o3.h, c)
                 THEN Thr(o3, AuthError, FALSE)
                 ELSE Ret(o3, Undef, FALSE)

initiatorAct2(o, m) ==
  IF BufLen(m) # 50 THEN Thr(o, "ACT2_READ_FAILED", FALSE)
  ELSE
    LET v == readUInt8(slice(m, 0, 1))
        re == slice(m, 1, 34)
        c == slice(m, 34, BufLen(m))
        o1 == [o EXCEPT !.repk = re]
    IN IF v # 0 THEN Thr(o1, "ACT2_BAD_VERSION", FALSE)
       ELSE IF IsUndef(o1.h) THEN Thr(o1, TypeError, FALSE)
       ELSE
         LET o2 == [o1 EXCEPT !.h = sha256(concat(<<o1.h, o1.repk>>))]
         IN IF ~IsPub(o2.repk) THEN Thr(o2, EcdhError, FALSE)
            ELSE
              LET ss == ecdh(o2.repk, o2.es)
                  tempK2 == hkdf(o2.ck, ss)
                  o3 == [o2 EXCEPT !.ck = slice(tempK2, 0, 32),
                                   !.tempK2 = slice(tempK2, 32, 64)]
              IN IF ~ccpVerify(o3.tempK2, alloc(12), o3.h, c)
                 THEN Thr(o3, AuthError, FALSE)
                 ELSE Ret([o3 EXCEPT !.h = sha256(concat(<<o3.h, c>>))],
                          Undef, FALSE)

initiatorAct3(o) ==
  IF IsUndef(o.tempK2) \/ IsUndef(o.h) THEN Thr(o, TypeError, FALSE)
  ELSE
    LET c == ccpEncrypt(o.tempK2, Act3NonceI, o.h, o.lpk)
        o1 == [o EXCEPT !.h = sha256(concat(<<o.h, c>>))]
    IN IF ~IsPub(o1.repk) THEN Thr(o1, EcdhError, TRUE)
       ELSE
         LET ss == ecdh(o1.repk, o1.ls)
             tempK3 == hkdf(o1.ck, ss)
             o2 == [o1 EXCEPT !.ck = slice(tempK3, 0, 32),
                              !.tempK3 = slice(tempK3, 32, 64)]
             t == ccpEncrypt(o2.tempK3, alloc(12), o2.h, alloc(0))
             sk == hkdf(o2.ck, alloc(0))
             o3 == [o2 EXCEPT !.rk = slice(sk, 32, 64),
                              !.sk = slice(sk, 0, 32),
                              !.sn = alloc(12),
                              !.rn = alloc(12)]
         IN Ret(o3, concat(<<alloc(1), c, t>>), TRUE)

\* receiveAct1 without this.repk = re
receiveAct1_NoRepk(o, m) ==
  LET o0 == _initialize(o, o.lpk)
  IN IF BufLen(m) # 50 THEN Thr(o0, "ACT1_READ_FAILED", FALSE)
     ELSE
       LET v == readUInt8(slice(m, 0, 1))
           re == slice(m, 1, 34)
           c == slice(m, 34, BufLen(m))
           o1 == o0
       IN IF v # 0 THEN Thr(o1, "ACT1_BAD_VERSION", FALSE)
          ELSE
            LET o2 == [o1 EXCEPT !.h = sha256(concat(<<o1.h, re>>))]
            IN IF ~IsPub(re) THEN Thr(o2, EcdhError, TRUE)
               ELSE
                 LET ss == ecdh(re, o2.ls)
                     tempK1 == hkdf(o2.ck, ss)
                     o3 == [o2 EXCEPT !.ck = slice(tempK1, 0, 32),
                                      !.tempK1 = slice(tempK1, 32, 64)]
                 IN IF ~ccpVerify(o3.tempK1, alloc(12), o3.h, c)
                    THEN Thr(o3, AuthError, TRUE)
                    ELSE Ret([o3 EXCEPT !.h = sha256(concat(<<o3.h, c>>))],
                             Undef, TRUE)

\* receiveAct1 without the decryption of the tag
receiveAct1_Unverified(o, m) ==
  LET o0 == _initialize(o, o.lpk)
  IN IF BufLen(m) # 50 THEN Thr(o0, "ACT1_READ_FAILED", FALSE)
     ELSE
       LET v == readUInt8(slice(m, 0, 1))
           re == slice(m, 1, 34)
           c == slice(m, 34, BufLen(m))
           o1 == [o0 EXCEPT !.repk = re]
       IN IF v # 0 THEN Thr(o1, "ACT1_BAD_VERSION", FALSE)
          ELSE
            LET o2 == [o1 EXCEPT !.h = sha256(concat(<<o1.h, re>>))]
            IN IF ~IsPub(re) THEN Thr(o2, EcdhError, TRUE)
               ELSE
                 LET ss == ecdh(re, o2.ls)
                     tempK1 == hkdf(o2.ck, ss)
                     o3 == [o2 EXCEPT !.ck = slice(tempK1, 0, 32),
                                      !.tempK1 = slice(tempK1, 32, 64)]
                 IN IF FALSE
                    THEN Thr(o3, AuthError, TRUE)
                    ELSE Ret([o3 EXCEPT !.h = sha256(concat(<<o3.h, c>>))],
                             Undef, TRUE)

receiveAct1(o, m) ==
  LET o0 == _initialize(o, o.lpk)
  IN IF BufLen(m) # 50 THEN Thr(o0, "ACT1_READ_FAILED", FALSE)
     ELSE
       LET v == readUInt8(slice(m, 0, 1))
           re == slice(m, 1, 34)
           c == slice(m, 34, BufLen(m))
           o1 == [o0 EXCEPT !.repk = re]
       IN IF v # 0 THEN Thr(o1, "ACT1_BAD_VERSION", FALSE)
          ELSE
            LET o2 == [o1 EXCEPT !.h = sha256(concat(<<o1.h, re>>))]
            IN IF ~IsPub(re) THEN Thr(o2, EcdhError, TRUE)
               ELSE
                 LET ss == ecdh(re, o2.ls)
                     tempK1 == hkdf(o2.ck, ss)
                     o3 == [o2 EXCEPT !.ck = slice(tempK1, 0, 32),
                                      !.tempK1 = slice(tempK1, 32, 64)]
                 IN IF ~ccpVerify(o3.tempK1, alloc(12), o3.h, c)
                    THEN Thr(o3, AuthError, TRUE)
                    ELSE Ret([o3 EXCEPT !.h = sha256(concat(<<o3.h, c>>))],
                             Undef, TRUE)

\* recieveAct2 with the static key in place of the ephemeral key
recieveAct2_StaticKey(o) ==
  IF IsUndef(o.h) THEN Thr(o, TypeError, FALSE)
  ELSE
    LET o1 == [o EXCEPT !.h = sha256(concat(<<o.h, o.epk>>))]
    IN IF ~IsPub(o1.repk) THEN Thr(o1, EcdhError, FALSE)
       ELSE
         LET ss == ecdh(o1.repk, o1.ls)
             tempK2 == hkdf(o1.ck, ss)
             o2 == [o1 EXCEPT !.ck = slice(tempK2, 0, 32),
                              !.tempK2 = slice(tempK2, 32, 64)]
             c == ccpEncrypt(o2.tempK2, alloc(12), o2.h, alloc(0))
             o3 == [o2 EXCEPT !.h = sha256(concat(<<o2.h, c>>))]
         IN Ret(o3, concat(<<alloc(1), o3.epk, c>>), TRUE)

recieveAct2(o) ==
  IF IsUndef(o.h) THEN Thr(o, TypeError, FALSE)
  ELSE
    LET o1 == [o EXCEPT !.h = sha256(concat(<<o.h, o.epk>>))]
    IN IF ~IsPub(o1.repk) THEN Thr(o1, EcdhError, FALSE)
       ELSE
         LET ss == ecdh(o1.repk, o1.es)
             tempK2 == hkdf(o1.ck, ss)
             o2 == [o1 EXCEPT !.ck = slice(tempK2, 0, 32),
                              !.tempK2 = slice(tempK2, 32, 64)]
             c == ccpEncrypt(o2.tempK2, alloc(12), o2.h, alloc(0))
             o3 == [o2 EXCEPT !.h = sha256(concat(<<o2.h, c>>))]
         IN Ret(o3, concat(<<alloc(1), o3.epk, c>>), FALSE)

\* receiveAct3 with the split of initiatorAct3: rk the second half, sk the first
receiveAct3_SameSplit(o, m) ==
  IF BufLen(m) # 66 THEN Thr(o, "ACT3_READ_FAILED", FALSE)
  ELSE
    LET v == readUInt8(slice(m, 0, 1))
        c == slice(m, 1, 50)
        t == slice(m, 50, BufLen(m))
    IN IF v # 0 THEN Thr(o, "ACT3_BAD_VERSION", FALSE)
       ELSE IF IsUndef(o.tempK2) \/ IsUndef(o.h) THEN Thr(o, TypeError, FALSE)
       ELSE IF ~ccpVerify(o.tempK2, Act3NonceR, o.h, c)
       THEN Thr(o, AuthError, FALSE)
       ELSE
         LET rs == ccpDecrypt(o.tempK2, Act3NonceR, o.h, c)
             o1 == [o EXCEPT !.rpk = rs]
             o2 == [o1 EXCEPT !.h = sha256(concat(<<o1.h, c>>))]
         IN IF ~IsPub(o2.rpk) THEN Thr(o2, EcdhError, FALSE)
            ELSE
              LET ss == ecdh(o2.rpk, o2.es)
                  tempK3 == hkdf(o2.ck, ss)
                  o3 == [o2 EXCEPT !.ck = slice(tempK3, 0, 32),
                                   !.tempK3 = slice(tempK3, 32, 64)]
              IN IF ~ccpVerify(o3.tempK3, alloc(12), o3.h, t)
                 THEN Thr(o3, AuthError, FALSE)
                 ELSE
                   LET sk == hkdf(o3.ck, alloc(0))
                       o4 == [o3 EXCEPT !.rk = slice(sk, 32, 64),
                                        !.sk = slice(sk, 0, 32),
                                        !.rn = alloc(12),
                                        !.sn = alloc(12)]
                   IN Ret(o4, Undef, FALSE)

\* receiveAct3 that does not decrypt the tag t
receiveAct3_NoTag(o, m) ==
  IF BufLen(m) # 66 THEN Thr(o, "ACT3_READ_FAILED", FALSE)
  ELSE
    LET v == readUInt8(slice(m, 0, 1))
        c == slice(m, 1, 50)
        t == slice(m, 50, BufLen(m))
    IN IF v # 0 THEN Thr(o, "ACT3_BAD_VERSION", FALSE)
       ELSE IF IsUndef(o.tempK2) \/ IsUndef(o.h) THEN Thr(o, TypeError, FALSE)
       ELSE IF ~ccpVerify(o.tempK2, Act3NonceR, o.h, c)
       THEN Thr(o, AuthError, FALSE)
       ELSE
         LET rs == ccpDecrypt(o.tempK2, Act3NonceR, o.h, c)
             o1 == [o EXCEPT !.rpk = rs]
             o2 == [o1 EXCEPT !.h = sha256(concat(<<o1.h, c>>))]
         IN IF ~IsPub(o2.rpk) THEN Thr(o2, EcdhError, FALSE)
            ELSE
              LET ss == ecdh(o2.rpk, o2.es)
                  tempK3 == hkdf(o2.ck, ss)
                  o3 == [o2 EXCEPT !.ck = slice(tempK3, 0, 32),
                                   !.tempK3 = slice(tempK3, 32, 64)]
              IN IF FALSE
                 THEN Thr(o3, AuthError, FALSE)
                 ELSE
                   LET sk == hkdf(o3.ck, alloc(0))
                       o4 == [o3 EXCEPT !.rk = slice(sk, 0, 32),
                                        !.sk = slice(sk, 32, 64),
                                        !.rn = alloc(12),
                                        !.sn = alloc(12)]
                   IN Ret(o4, Undef, FALSE)

receiveAct3(o, m) ==
  IF BufLen(m) # 66 THEN Thr(o, "ACT3_READ_FAILED", FALSE)
  ELSE
    LET v == readUInt8(slice(m, 0, 1))
        c == slice(m, 1, 50)
        t == slice(m, 50, BufLen(m))
    IN IF v # 0 THEN Thr(o, "ACT3_BAD_VERSION", FALSE)
       ELSE IF IsUndef(o.tempK2) \/ IsUndef(o.h) THEN Thr(o, TypeError, FALSE)
       ELSE IF ~ccpVerify(o.tempK2, Act3NonceR, o.h, c)
       THEN Thr(o, AuthError, FALSE)
       ELSE
         LET rs == ccpDecrypt(o.tempK2, Act3NonceR, o.h, c)
             o1 == [o EXCEPT !.rpk = rs]
             o2 == [o1 EXCEPT !.h = sha256(concat(<<o1.h, c>>))]
         IN IF ~IsPub(o2.rpk) THEN Thr(o2, EcdhError, FALSE)
            ELSE
              LET ss == ecdh(o2.rpk, o2.es)
                  tempK3 == hkdf(o2.ck, ss)
                  o3 == [o2 EXCEPT !.ck = slice(tempK3, 0, 32),
                                   !.tempK3 = slice(tempK3, 32, 64)]
              IN IF ~ccpVerify(o3.tempK3, alloc(12), o3.h, t)
                 THEN Thr(o3, AuthError, FALSE)
                 ELSE
                   LET sk == hkdf(o3.ck, alloc(0))
                       o4 == [o3 EXCEPT !.rk = slice(sk, 0, 32),
                                        !.sk = slice(sk, 32, 64),
                                        !.rn = alloc(12),
                                        !.sn = alloc(12)]
                   IN Ret(o4, Undef, FALSE)

encryptMessage(o, m) ==
  IF BufLen(m) > 65535 THEN Thr(o, RangeError, FALSE)
  ELSE IF IsUndef(o.sk) \/ IsUndef(o.sn) THEN Thr(o, TypeError, FALSE)
  ELSE
    LET l == writeUInt16BE(BufLen(m))
        lc == ccpEncrypt(o.sk, o.sn, alloc(0), l)
        o1 == SendingNonceStep(o)
        c == ccpEncrypt(o1.sk, o1.sn, alloc(0), m)
        o2 == SendingNonceStep(o1)
    IN Ret(o2, concat(<<lc, c>>), FALSE)

\* decryptLength that steps rn before it decrypts
decryptLength_StepFirst(o, lc) ==
  IF IsUndef(o.rk) \/ IsUndef(o.rn) THEN Thr(o, TypeError, FALSE)
  ELSE
    LET o1 == RecievingNonceStep(o)
    IN IF ~ccpVerify(o.rk, o.rn, alloc(0), lc) THEN Thr(o1, AuthError, FALSE)
       ELSE
         LET l == ccpDecrypt(o.rk, o.rn, alloc(0), lc)
         IN IF ~canReadUInt16BE(l) THEN Thr(o1, RangeError, FALSE)
            ELSE Ret(o1, Num(readUInt16BE(l)), FALSE)

decryptLength(o, lc) ==
  IF IsUndef(o.rk) \/ IsUndef(o.rn) THEN Thr(o, TypeError, FALSE)
  ELSE IF ~ccpVerify(o.rk, o.rn, alloc(0), lc) THEN Thr(o, AuthError, FALSE)
  ELSE
    LET l == ccpDecrypt(o.rk, o.rn, alloc(0), lc)
        o1 == RecievingNonceStep(o)
    IN IF ~canReadUInt16BE(l) THEN Thr(o1, RangeError, FALSE)
       ELSE Ret(o1, Num(readUInt16BE(l)), FALSE)

\* decryptMessage that leaves rn as it is
decryptMessage_NoStep(o, c) ==
  IF IsUndef(o.rk) \/ IsUndef(o.rn) THEN Thr(o, TypeError, FALSE)
  ELSE IF ~ccpVerify(o.rk, o.rn, alloc(0), c) THEN Thr(o, AuthError, FALSE)
  ELSE Ret(o, ccpDecrypt(o.rk, o.rn, alloc(0), c), FALSE)

decryptMessage(o, c) ==
  IF IsUndef(o.rk) \/ IsUndef(o.rn) THEN Thr(o, TypeError, FALSE)
  ELSE IF ~ccpVerify(o.rk, o.rn, alloc(0), c) THEN Thr(o, AuthError, FALSE)
  ELSE
    LET m == ccpDecrypt(o.rk, o.rn, alloc(0), c)
        o1 == RecievingNonceStep(o)
    IN Ret(o1, m, FALSE)

----------------------------------------------------------------------------
(* The callers of the two objects, and the wire between them *)

Keys == 1..MaxKey

ActsI == <<"initiatorAct1", "initiatorAct2", "initiatorAct3">>

ActsR == <<"receiveAct1", "recieveAct2", "receiveAct3">>

ActOps == {ActsI[i] : i \in 1..3} \cup {ActsR[i] : i \in 1..3}

\* payloads handed to encryptMessage: empty, short, and of the greatest length
Payloads == {fill(0, 0), fill(2, 7), fill(65535, 1)}

\* a payload one byte longer than a frame can carry
Oversize == fill(65536, 1)

\* a buffer of the same length with some bit changed
xor(b) == <<"xor", b>>

\* what the wire may deliver in place of a three-part handshake message:
\* the message itself, another version byte, another public key or a changed
\* second part, a changed tag, a message cut short, and another version
\* byte together with a changed tag or a missing one
Tampered(m) ==
  LET p == m[2]
  IN {m,
      concat(<<fromBytes(<<1>>), p[2], p[3]>>),
      concat(<<p[1], xor(p[2]), p[3]>>),
      concat(<<p[1], p[2], xor(p[3])>>),
      concat(<<p[1], p[2]>>),
      concat(<<fromBytes(<<1>>), p[2], xor(p[3])>>),
      concat(<<fromBytes(<<1>>), p[2]>>)}
     \cup (IF IsPub(p[2])
           THEN {concat(<<p[1], getPublicKey(priv(k)), p[3]>>) : k \in Keys}
           ELSE {})

\* one AEAD use of a transport key, added to the uses observed so far: a
\* sequence of [key, n, inOrder], one entry per run of uses of the same key
Observe(epochs, key, nonce) ==
  LET ctr == readUInt16LE(nonce, 4)
      k == Len(epochs)
  IN IF k > 0 /\ epochs[k].key = key
     THEN [epochs EXCEPT ![k] = [key |-> key, n |-> @.n + 1,
                                 inOrder |-> @.inOrder /\ ctr = @.n]]
     ELSE Append(epochs, [key |-> key, n |-> 1, inOrder |-> ctr = 0])

\* no position in a stream of frames
NoPart == <<0, "">>

NoCall ==
  [n |-> 0, peer |-> "I", op |-> "constructor", arg |-> Undef, err |-> "",
   out |-> Undef, ref |-> Undef, wire |-> Undef, at |-> NoPart]

InitWith(lsI, esI, lsR, esR, dial) ==
  /\ ns = [p \in Peers |-> IF p = "I" THEN NoiseState(priv(lsI), priv(esI))
                                      ELSE NoiseState(priv(lsR), priv(esR))]
  /\ net = [act1 |-> Undef, act2 |-> Undef, act3 |-> Undef,
            q |-> [p \in Peers |-> <<>>]]
  /\ drv = [p \in Peers |->
              [acts |-> <<>>, failed |-> FALSE, clean |-> TRUE, sent |-> 0,
               dial |-> getPublicKey(priv(dial)), pend |-> Undef,
               misuse |-> 0, got |-> <<>>, due |-> "decryptLength",
               broke |-> FALSE]]
  /\ last = NoCall
  /\ uses = [p \in Peers |-> [enc |-> <<>>, dec |-> <<>>]]
  /\ lsReads = [p \in Peers |-> {"constructor"}]

\* the bookkeeping of a call of method op on peer p with result res: arg is
\* the argument given, wire what the peer had sent for it, and at the
\* position of that part in the peer's stream of frames
CalledOn(p, op, arg, ref, wire, at, res) ==
  /\ ns' = [ns EXCEPT ![p] = res.st]
  /\ last' = [n |-> last.n + 1, peer |-> p, op |-> op, arg |-> arg,
              err |-> res.err, out |-> res.out, ref |-> ref, wire |-> wire,
              at |-> at]
  /\ lsReads' = [lsReads EXCEPT ![p] = IF res.ls THEN @ \cup {op} ELSE @]

\* a call whose argument is what the peer sent
Called(p, op, arg, ref, res) == CalledOn(p, op, arg, ref, arg, NoPart, res)

\* the caller's record after a call of an act
AfterAct(d, op, res, clean) ==
  [d EXCEPT !.acts = IF res.err = "" THEN Append(@, op) ELSE @,
            !.failed = @ \/ res.err # "",
            !.clean = @ /\ clean]

\* the caller of p is where the role's sequence calls act number i
Ready(p, seq, i) ==
  /\ ~drv[p].failed
  /\ drv[p].acts = SubSeq(seq, 1, i - 1)

IAct1 ==
  /\ Ready("I", ActsI, 1)
  /\ LET res == initiatorAct1(ns["I"], drv["I"].dial)
     IN /\ Called("I", "initiatorAct1", drv["I"].dial, Undef, res)
        /\ drv' = [drv EXCEPT !["I"] = AfterAct(@, "initiatorAct1", res, TRUE)]
        /\ net' = [net EXCEPT !.act1 = res.out]
  /\ UNCHANGED uses

RAct1(ms) ==
  /\ Ready("R", ActsR, 1)
  /\ ~IsUndef(net.act1)
  /\ \E m \in ms :
       LET res == receiveAct1(ns["R"], m)
       IN /\ CalledOn("R", "receiveAct1", m, Undef, net.act1, NoPart, res)
          /\ drv' = [drv EXCEPT !["R"] =
                       AfterAct(@, "receiveAct1", res, m = net.act1)]
  /\ net' = [net EXCEPT !.act1 = Undef]
  /\ UNCHANGED uses

RAct2 ==
  /\ Ready("R", ActsR, 2)
  /\ LET res == recieveAct2(ns["R"])
     IN /\ Called("R", "recieveAct2", Undef, Undef, res)
        /\ drv' = [drv EXCEPT !["R"] = AfterAct(@, "recieveAct2", res, TRUE)]
        /\ net' = [net EXCEPT !.act2 = res.out]
  /\ UNCHANGED uses

IAct2(ms) ==
  /\ Ready("I", ActsI, 2)
  /\ ~IsUndef(net.act2)
  /\ \E m \in ms :
       LET res == initiatorAct2(ns["I"], m)
       IN /\ CalledOn("I", "initiatorAct2", m, Undef, net.act2, NoPart, res)
          /\ drv' = [drv EXCEPT !["I"] =
                       AfterAct(@, "initiatorAct2", res, m = net.act2)]
  /\ net' = [net EXCEPT !.act2 = Undef]
  /\ UNCHANGED uses

IAct3 ==
  /\ Ready("I", ActsI, 3)
  /\ LET res == initiatorAct3(ns["I"])
     IN /\ Called("I", "initiatorAct3", Undef, Undef, res)
        /\ drv' = [drv EXCEPT !["I"] = AfterAct(@, "initiatorAct3", res, TRUE)]
        /\ net' = [net EXCEPT !.act3 = res.out]
  /\ UNCHANGED uses

RAct3(ms) ==
  /\ Ready("R", ActsR, 3)
  /\ ~IsUndef(net.act3)
  /\ \E m \in ms :
       LET res == receiveAct3(ns["R"], m)
       IN /\ CalledOn("R", "receiveAct3", m, Undef, net.act3, NoPart, res)
          /\ drv' = [drv EXCEPT !["R"] =
                       AfterAct(@, "receiveAct3", res, m = net.act3)]
  /\ net' = [net EXCEPT !.act3 = Undef]
  /\ UNCHANGED uses

\* the handshake is over on p's side and nothing failed there
InTransport(p) ==
  /\ ~drv[p].failed
  /\ Len(drv[p].acts) = 3

\* p encrypts payload m and puts the frame on the wire
Send(p, m, maxSends) ==
  /\ InTransport(p)
  /\ drv[p].sent < maxSends
  /\ Len(net.q[Other(p)]) < MaxInFlight
  /\ LET res == encryptMessage(ns[p], m)
     IN /\ Called(p, "encryptMessage", m, Undef, res)
        /\ drv' = [drv EXCEPT ![p].sent = @ + 1,
                              ![p].failed = @ \/ res.err # ""]
        /\ net' = IF res.err = ""
                  THEN [net EXCEPT !.q[Other(p)] =
                          Append(@, [frame |-> res.out, m |-> m])]
                  ELSE net
        /\ uses' = IF res.err = ""
                   THEN LET lc == slice(res.out, 0, 18)
                            c == slice(res.out, 18, BufLen(res.out))
                        IN [uses EXCEPT ![p].enc =
                              Observe(Observe(@, lc[2], lc[3]), c[2], c[3])]
                   ELSE uses

\* p reads the 18 bytes of the next frame's length and decrypts them
RecvLength(p) ==
  /\ InTransport(p)
  /\ net.q[p] # <<>>
  /\ IsUndef(drv[p].pend)
  /\ LET lc == slice(Head(net.q[p]).frame, 0, 18)
         res == decryptLength(ns[p], lc)
     IN /\ Called(p, "decryptLength", lc, Head(net.q[p]).m, res)
        /\ drv' = [drv EXCEPT ![p].pend = res.out,
                              ![p].failed = @ \/ res.err # ""]
        /\ uses' = IF res.err = ""
                   THEN [uses EXCEPT ![p].dec = Observe(@, lc[2], lc[3])]
                   ELSE uses
  /\ UNCHANGED net

\* p reads as many bytes as the length said, and 16, and decrypts them
RecvBody(p) ==
  /\ InTransport(p)
  /\ net.q[p] # <<>>
  /\ ~IsUndef(drv[p].pend)
  /\ LET frame == Head(net.q[p]).frame
         c == slice(frame, 18, 18 + drv[p].pend[2] + 16)
         res == decryptMessage(ns[p], c)
     IN /\ Called(p, "decryptMessage", c, Head(net.q[p]).m, res)
        /\ drv' = [drv EXCEPT ![p].pend = Undef,
                              ![p].failed = @ \/ res.err # ""]
        /\ uses' = IF res.err = ""
                   THEN [uses EXCEPT ![p].dec = Observe(@, c[2], c[3])]
                   ELSE uses
  /\ net' = [net EXCEPT !.q[p] = Tail(@)]

----------------------------------------------------------------------------
(* Spec: the handshake in the roles' order, for every choice of the four   *)
(* private keys and of the key the initiator dials, over a wire that may   *)
(* change each message.  A caller whose call failed drops the connection.  *)

Init ==
  \E lsI \in Keys, esI \in Keys, lsR \in Keys, esR \in Keys, dial \in Keys :
    InitWith(lsI, esI, lsR, esR, dial)

Next ==
  \/ IAct1
  \/ RAct1(Tampered(net.act1))
  \/ RAct2
  \/ IAct2(Tampered(net.act2))
  \/ IAct3
  \/ RAct3(Tampered(net.act3))

Spec == Init /\ [][Next]_vars

----------------------------------------------------------------------------
(* SpecOneWay: an unmodified handshake, then the initiator alone sends and *)
(* the responder decrypts each frame in order, through two key rotations.  *)

InitFixed == InitWith(1, 2, 3, 4, 3)

Handshake ==
  \/ IAct1
  \/ RAct1({net.act1})
  \/ RAct2
  \/ IAct2({net.act2})
  \/ IAct3
  \/ RAct3({net.act3})

NextOneWay ==
  \/ Handshake
  \/ \E m \in Payloads \cup {Oversize} : Send("I", m, MaxFrames)
  \/ RecvLength("R")
  \/ RecvBody("R")

SpecOneWay == InitFixed /\ [][NextOneWay]_vars

----------------------------------------------------------------------------
(* SpecDuplex: an unmodified handshake, then both sides send, each side's  *)
(* frames decrypted in order by the other, in every interleaving in which  *)
(* neither side is more than MaxLead frames ahead of the other.            *)

SendDuplex(p) ==
  /\ drv[p].sent - drv[Other(p)].sent < MaxLead
  /\ Send(p, fill(2, 7), MaxDuplexFrames)

NextDuplex ==
  \/ Handshake
  \/ \E p \in Peers : SendDuplex(p)
  \/ \E p \in Peers : RecvLength(p)
  \/ \E p \in Peers : RecvBody(p)

SpecDuplex == InitFixed /\ [][NextDuplex]_vars

----------------------------------------------------------------------------------------------------------------------------------------
(* SpecMisuse: the handshake and the transport as in SpecDuplex, with a    *)
(* caller that, up to MaxMisuse times, calls any method of either object   *)
(* whatever the protocol's order and whatever failed before, with the      *)
(* message on the wire, as returned or changed.                            *)

\* the caller's record after a call made at any time
AfterCall(d, op, res) ==
  [d EXCEPT !.acts = IF res.err = "" /\ op \in ActOps THEN Append(@, op) ELSE @,
            !.failed = @ \/ res.err # "",
            !.misuse = @ + 1]

\* the bookkeeping of a call made at any time
Misused(p, op, arg, res) ==
  /\ drv["I"].misuse + drv["R"].misuse < MaxMisuse
  /\ Called(p, op, arg, Undef, res)
  /\ drv' = [drv EXCEPT ![p] = AfterCall(@, op, res)]
  /\ UNCHANGED uses

AnyInitiatorAct1(p) ==
  LET res == initiatorAct1(ns[p], ns[Other(p)].lpk)
  IN /\ Misused(p, "initiatorAct1", ns[Other(p)].lpk, res)
     /\ net' = [net EXCEPT !.act1 = res.out]

AnyReceiveAct1(p) ==
  /\ ~IsUndef(net.act1)
  /\ \E m \in Tampered(net.act1) :
       Misused(p, "receiveAct1", m, receiveAct1(ns[p], m))
  /\ UNCHANGED net

AnyRecieveAct2(p) ==
  LET res == recieveAct2(ns[p])
  IN /\ Misused(p, "recieveAct2", Undef, res)
     /\ net' = IF res.err = "" THEN [net EXCEPT !.act2 = res.out] ELSE net

AnyInitiatorAct2(p) ==
  /\ ~IsUndef(net.act2)
  /\ \E m \in Tampered(net.act2) :
       Misused(p, "initiatorAct2", m, initiatorAct2(ns[p], m))
  /\ UNCHANGED net

AnyInitiatorAct3(p) ==
  LET res == initiatorAct3(ns[p])
  IN /\ Misused(p, "initiatorAct3", Undef, res)
     /\ net' = IF res.err = "" THEN [net EXCEPT !.act3 = res.out] ELSE net

AnyReceiveAct3(p) ==
  /\ ~IsUndef(net.act3)
  /\ \E m \in Tampered(net.act3) :
       Misused(p, "receiveAct3", m, receiveAct3(ns[p], m))
  /\ UNCHANGED net

AnyEncryptMessage(p) ==
  /\ Len(net.q[Other(p)]) < MaxInFlight
  /\ LET m == fill(2, 7)
         res == encryptMessage(ns[p], m)
     IN /\ Misused(p, "encryptMessage", m, res)
        /\ net' = IF res.err = ""
                  THEN [net EXCEPT !.q[Other(p)] =
                          Append(@, [frame |-> res.out, m |-> m])]
                  ELSE net

AnyDecryptLength(p) ==
  /\ net.q[p] # <<>>
  /\ LET lc == slice(Head(net.q[p]).frame, 0, 18)
     IN Misused(p, "decryptLength", lc, decryptLength(ns[p], lc))
  /\ UNCHANGED net

AnyDecryptMessage(p) ==
  /\ net.q[p] # <<>>
  /\ LET frame == Head(net.q[p]).frame
         c == slice(frame, 18, BufLen(frame))
     IN Misused(p, "decryptMessage", c, decryptMessage(ns[p], c))
  /\ UNCHANGED net

NextMisuse ==
  \/ Handshake
  \/ \E p \in Peers : Send(p, fill(2, 7), MaxSends)
  \/ \E p \in Peers : RecvLength(p)
  \/ \E p \in Peers : RecvBody(p)
  \/ \E p \in Peers : AnyInitiatorAct1(p)
  \/ \E p \in Peers : AnyReceiveAct1(p)
  \/ \E p \in Peers : AnyRecieveAct2(p)
  \/ \E p \in Peers : AnyInitiatorAct2(p)
  \/ \E p \in Peers : AnyInitiatorAct3(p)
  \/ \E p \in Peers : AnyReceiveAct3(p)
  \/ \E p \in Peers : AnyEncryptMessage(p)
  \/ \E p \in Peers : AnyDecryptLength(p)
  \/ \E p \in Peers : AnyDecryptMessage(p)

SpecMisuse == InitFixed /\ [][NextMisuse]_vars

----------------------------------------------------------------------------
(* SpecStream: the handshake over a wire that may change each message,     *)
(* then the initiator encrypts frames that stay readable on the wire, and  *)
(* the responder calls decryptLength and decryptMessage in any order, each *)
(* on either part of any frame sent so far, as sent or changed.  A failed  *)
(* decrypt does not stop this receiver.                                    *)

StreamPayloads == {fill(0, 0), fill(2, 7)}

Parts == {"length", "body"}

\* part of a frame: its first 18 bytes, or the rest
PartOf(frame, part) ==
  IF part = "length" THEN slice(frame, 0, 18)
  ELSE slice(frame, 18, BufLen(frame))

\* p encrypts payload m; the frame is appended to what p has sent
Emit(p, m) ==
  /\ InTransport(p)
  /\ drv[p].sent < MaxStreamFrames
  /\ LET res == encryptMessage(ns[p], m)
     IN /\ Called(p, "encryptMessage", m, Undef, res)
        /\ drv' = [drv EXCEPT ![p].sent = @ + 1]
        /\ net' = [net EXCEPT !.q[Other(p)] =
                     Append(@, [frame |-> res.out, m |-> m])]
        /\ uses' = [uses EXCEPT ![p].enc =
                      Observe(Observe(@, PartOf(res.out, "length")[2],
                                         PartOf(res.out, "length")[3]),
                              PartOf(res.out, "body")[2],
                              PartOf(res.out, "body")[3])]

\* p calls op on a part of the i-th frame sent to it, changed or not; got is
\* the parts that authenticated so far, misuse counts the calls that did not
DecryptAny(p, op, i, part, changed) ==
  /\ InTransport(p)
  /\ Len(drv[p].got) + drv[p].misuse < MaxStreamCalls
  /\ i \in 1..Len(net.q[p])
  /\ LET sent == PartOf(net.q[p][i].frame, part)
         arg == IF changed THEN xor(sent) ELSE sent
         res == IF op = "decryptLength" THEN decryptLength(ns[p], arg)
                ELSE decryptMessage(ns[p], arg)
         used == ccpVerify(ns[p].rk, ns[p].rn, alloc(0), arg)
     IN /\ CalledOn(p, op, arg, net.q[p][i].m, sent, <<i, part>>, res)
        /\ drv' = [drv EXCEPT
                     ![p].got = IF used THEN Append(@, <<i, part>>) ELSE @,
                     ![p].misuse = IF used THEN @ ELSE @ + 1,
                     ![p].due = IF op = "decryptLength" THEN "decryptMessage"
                                ELSE "decryptLength",
                     ![p].broke = @ \/ op # drv[p].due]
        /\ uses' = IF used
                   THEN [uses EXCEPT ![p].dec = Observe(@, arg[2], arg[3])]
                   ELSE uses
  /\ UNCHANGED net

NextStream ==
  \/ Next
  \/ \E m \in StreamPayloads : Emit("I", m)
  \/ \E op \in {"decryptLength", "decryptMessage"}, i \in 1..MaxStreamFrames,
        part \in Parts, changed \in BOOLEAN :
        DecryptAny("R", op, i, part, changed)

SpecStream == InitFixed /\ [][NextStream]_vars

----------------------------------------------------------------------------
(* Claims *)

\* both sides completed their three acts
HandshakeDone == drv["I"].acts = ActsI /\ drv["R"].acts = ActsR

\* every message either side consumed was the one the other side returned
Unmodified == drv["I"].clean /\ drv["R"].clean

\* no transport method has used a key yet
NoFrameYet == \A p \in Peers : uses[p].enc = <<>> /\ uses[p].dec = <<>>

\* C1: after a handshake over unmodified messages, the initiator's sk is the
\* responder's rk, the initiator's rk is the responder's sk, and the four
\* nonces are twelve zero bytes
C1_KeysAgree ==
  (HandshakeDone /\ Unmodified /\ NoFrameYet) =>
    /\ ns["I"].sk = ns["R"].rk
    /\ ns["I"].rk = ns["R"].sk
    /\ \A p \in Peers : ns[p].sn = alloc(12) /\ ns[p].rn = alloc(12)

C1_Witness ==
  /\ HandshakeDone /\ Unmodified /\ NoFrameYet
  /\ last.op = "receiveAct3"
  /\ ~IsUndef(ns["I"].sk)
  /\ ns["I"].sk # ns["I"].rk

\* a decrypt call returned what the frame was made from
DecryptedAsSent ==
  /\ last.err = ""
  /\ last.op = "decryptLength" => last.out = Num(BufLen(last.ref))
  /\ last.op = "decryptMessage" => last.out = last.ref

\* C2: with both sides sending, in every interleaving, every frame decrypts
\* to the message that was sent, also after rotations on either side
C2_EveryFrameDecrypts ==
  (HandshakeDone /\ last.op \in {"decryptLength", "decryptMessage"}) =>
    DecryptedAsSent

\* C3: with one side sending and the other decrypting in order, decryptLength
\* returns the length of the message and decryptMessage the message, for
\* every frame, those after key rotations included
C3_RoundTrip ==
  \A op \in {"decryptLength", "decryptMessage"} :
    (last.peer = "R" /\ last.op = op) =>
      /\ last.err = ""
      /\ last.out = IF op = "decryptLength" THEN Num(BufLen(last.ref))
                                            ELSE last.ref

C3_Witness ==
  /\ last.op = "decryptMessage"
  /\ last.out = fill(65535, 1)
  /\ Len(uses["R"].dec) = 3
  /\ drv["I"].sent = 1001

\* the key and the nonce of direction d ("enc": sk, sn; "dec": rk, rn) of p
KeyOf(p, d) == IF d = "enc" THEN ns[p].sk ELSE ns[p].rk

NonceOf(p, d) == IF d = "enc" THEN ns[p].sn ELSE ns[p].rn

\* C4: every key of a direction is used 1000 times, with the counters 0..999
\* in order; after the use with counter 999 the direction holds another key
\* and the counter 0, and before it the key in use and the next counter
C4_RotationAt1000 ==
  \A p \in Peers, d \in {"enc", "dec"} :
    LET e == uses[p][d]
        k == Len(e)
    IN /\ \A i \in 1..k : e[i].inOrder /\ e[i].n <= 1000
       /\ \A i \in 1..(k - 1) : e[i].n = 1000 /\ e[i + 1].key # e[i].key
       /\ k > 0 =>
            IF e[k].n = 1000
            THEN KeyOf(p, d) # e[k].key /\ readUInt16LE(NonceOf(p, d), 4) = 0
            ELSE KeyOf(p, d) = e[k].key
                 /\ readUInt16LE(NonceOf(p, d), 4) = e[k].n

C4_Witness ==
  /\ Len(uses["I"].enc) = 3
  /\ Len(uses["R"].dec) = 3
  /\ uses["I"].enc[2].n = 1000
  /\ uses["R"].dec[2].n = 1000

\* how many times the sending key of p has changed
Rotations(p) ==
  LET e == uses[p].enc
  IN IF Len(e) = 0 THEN 0
     ELSE IF ns[p].sk = e[Len(e)].key THEN Len(e) - 1 ELSE Len(e)

InSequence(p, op) ==
  LET k == Len(drv[p].acts)
  IN /\ k < 3
     /\ \E seq \in {ActsI, ActsR} :
          SubSeq(seq, 1, k) = drv[p].acts /\ seq[k + 1] = op

\* the fields of the symmetric state and of the transport cipher
Cipher(o) == <<o.h, o.ck, o.sk, o.rk, o.sn, o.rn>>

\* C6: an act called out of its role's sequence, on an object none of whose
\* calls has failed, throws instead of running (the claim names the error
\* OUT_OF_SEQUENCE; any error is accepted here) and leaves h, ck, sk, rk, sn
\* and rn as they were
C6_OutOfSequenceFails ==
  [][(/\ last'.n = last.n + 1
      /\ last'.op \in ActOps
      /\ ~drv[last'.peer].failed
      /\ ~InSequence(last'.peer, last'.op))
     => (/\ last'.err # ""
         /\ Cipher(ns'[last'.peer]) = Cipher(ns[last'.peer]))]_vars

\* the errors of a message's length, of its version and of its authentication
ProtocolErrors ==
  {"ACT1_READ_FAILED", "ACT2_READ_FAILED", "ACT3_READ_FAILED",
   "ACT1_BAD_VERSION", "ACT2_BAD_VERSION", "ACT3_BAD_VERSION", AuthError}

\* C7: after a call on an object has failed with a length, version or
\* authentication error, the next call on that object fails too
C7_FailureIsTerminal ==
  [][(/\ last'.n = last.n + 1
      /\ last'.peer = last.peer
      /\ last.err \in ProtocolErrors)
     => last'.err # ""]_vars

\* C8 as claimed: no method before act 3 of the role evaluates this.ls
C8_LsUnusedBeforeAct3 ==
  /\ lsReads["I"] \ {"constructor"} \subseteq {"initiatorAct3"}
  /\ lsReads["R"] \ {"constructor"} \subseteq {"receiveAct3"}

\* C8: but for the constructor, which derives lpk, the initiator's ls is
\* evaluated by initiatorAct3 alone, and the responder's by receiveAct1 alone
C8_LsReadOnlyBy ==
  /\ lsReads["I"] \subseteq {"constructor", "initiatorAct3"}
  /\ lsReads["R"] \subseteq {"constructor", "receiveAct1"}

C8_Witness ==
  /\ HandshakeDone
  /\ lsReads["I"] = {"constructor", "initiatorAct3"}
  /\ lsReads["R"] = {"constructor", "receiveAct1"}

\* C9: receiveAct1 returns only on a message that initiatorAct1 returns when
\* given the responder's lpk; on the message of an initiator given another
\* key it throws the authentication error
C9_Act1Authenticates ==
  last.op = "receiveAct1" =>
    /\ last.err = "" =>
         \E ls \in Keys, es \in Keys :
           last.arg = initiatorAct1(NoiseState(priv(ls), priv(es)),
                                    ns[last.peer].lpk).out
    /\ (drv[last.peer].clean /\ drv["I"].dial # ns[last.peer].lpk) =>
         last.err = AuthError

C9_Witness ==
  /\ last.op = "receiveAct1"
  /\ last.err = ""
  /\ drv["I"].dial = ns["R"].lpk
  /\ ns["R"].lpk # ns["I"].lpk

\* C10: after receiveAct3 returned, the responder's rpk is the initiator's
\* lpk; after initiatorAct2 returned the initiator's repk is the responder's
\* epk, and after receiveAct1 returned the responder's repk is the
\* initiator's epk
C10_RemoteKeysLearned ==
  /\ drv["R"].acts = ActsR => ns["R"].rpk = ns["I"].lpk
  /\ Len(drv["I"].acts) >= 2 => ns["I"].repk = ns["R"].epk
  /\ Len(drv["R"].acts) >= 1 => ns["R"].repk = ns["I"].epk

C10_Witness ==
  /\ HandshakeDone
  /\ ns["R"].rpk = ns["I"].lpk
  /\ ns["I"].lpk # ns["I"].epk
  /\ ns["I"].lpk # ns["R"].lpk

----------------------------------------------------------------------------
\* the parts of a stream of frames that come before a part of frame i
StreamBefore(i, part) ==
  [k \in 1..(2 * (i - 1) + IF part = "body" THEN 1 ELSE 0) |->
     <<(k + 1) \div 2, IF k % 2 = 1 THEN "length" ELSE "body">>]

\* the call made by this step gave a part of a frame, as sent, to the
\* operation that decrypts that part
DecryptsPart ==
  /\ last'.n = last.n + 1
  /\ last'.at # NoPart
  /\ last'.arg = last'.wire
  /\ last'.op = IF last'.at[2] = "length" THEN "decryptLength"
                ELSE "decryptMessage"

\* C11: with no rotation, decrypting a part of the i-th frame succeeds if and
\* only if the parts decrypted before it are exactly the parts of frames
\* 1..i-1 (and the length of frame i, for its body), in order; a skipped,
\* replayed or reordered frame fails authentication
C11_InOrderOnly ==
  [][DecryptsPart =>
       IF drv[last'.peer].got = StreamBefore(last'.at[1], last'.at[2])
       THEN last'.err = ""
       ELSE last'.err = AuthError]_vars

\* the second frame decrypts after the first, although an attempt to decrypt
\* it before the first had failed
C11_Witness ==
  /\ last.op = "decryptMessage"
  /\ last.at = <<2, "body">>
  /\ last.err = ""
  /\ last.out = last.ref
  /\ drv["R"].got = StreamBefore(3, "length")
  /\ drv["R"].misuse = 1

----------------------------------------------------------------------------
\* C12: once the receiver has called decryptLength and decryptMessage out of
\* their alternation on the frames of a sender, every later decrypt of a part
\* of those frames fails authentication
C12_OutOfOrderDesyncs ==
  [][(DecryptsPart /\ drv[last'.peer].broke) => last'.err = AuthError]_vars

----------------------------------------------------------------------------
ReceiveOps ==
  {"receiveAct1", "initiatorAct2", "receiveAct3", "decryptLength",
   "decryptMessage"}

\* the last call was given something else than the peer had sent, of the
\* same length and, for a handshake message, with the version byte 0
ModifiedInTransit ==
  /\ last.op \in ReceiveOps
  /\ ~IsUndef(last.wire)
  /\ last.arg # last.wire
  /\ BufLen(last.arg) = BufLen(last.wire)
  /\ last.op \in ActOps => readUInt8(slice(last.arg, 0, 1)) = 0

\* C13: a handshake message whose ephemeral key, encrypted static key or tag
\* was modified in transit, and a transport frame whose encrypted length or
\* body was modified, makes the receiving operation fail (the AEAD does not
\* authenticate, or the key is refused as no public key); the act is not
\* completed and nothing is returned
C13_ModifiedFails ==
  ModifiedInTransit =>
    /\ last.err \in {AuthError, EcdhError}
    /\ last.out = Undef
    /\ \A k \in 1..Len(drv[last.peer].acts) : drv[last.peer].acts[k] # last.op

\* a modified body of the first frame is refused after its length decrypted
C13_Witness ==
  /\ ModifiedInTransit
  /\ last.op = "decryptMessage"
  /\ last.at = <<1, "body">>
  /\ last.err = AuthError
  /\ drv["R"].got = <<<<1, "length">>>>

----------------------------------------------------------------------------
ReceiveActs == {"receiveAct1", "initiatorAct2", "receiveAct3"}

ActNo(op) ==
  CASE op = "receiveAct1" -> 1 [] op = "initiatorAct2" -> 2 [] OTHER -> 3

ActLen(op) == IF ActNo(op) = 3 THEN 66 ELSE 50

ReadFailed(op) ==
  <<"ACT1_READ_FAILED", "ACT2_READ_FAILED", "ACT3_READ_FAILED">>[ActNo(op)]

BadVersion(op) ==
  <<"ACT1_BAD_VERSION", "ACT2_BAD_VERSION", "ACT3_BAD_VERSION">>[ActNo(op)]

\* the key under which act number n decrypts, as held by object o
TempKey(o, n) ==
  CASE n = 1 -> o.tempK1 [] n = 2 -> o.tempK2 [] OTHER -> o.tempK3

\* C14: a receive act given a message of another length than 50, 50 and 66
\* bytes fails with ACTn_READ_FAILED whatever the version byte, and one given
\* the right length and a version byte other than 0 fails with
\* ACTn_BAD_VERSION whatever the tag; in both cases before the act's key is
\* derived and anything decrypted
C14_MalformedRejected ==
  last.op \in ReceiveActs =>
    LET malformed == BufLen(last.arg) # ActLen(last.op)
                     \/ readUInt8(slice(last.arg, 0, 1)) # 0
    IN /\ BufLen(last.arg) # ActLen(last.op) => last.err = ReadFailed(last.op)
       /\ (BufLen(last.arg) = ActLen(last.op)
             /\ readUInt8(slice(last.arg, 0, 1)) # 0)
            => last.err = BadVersion(last.op)
       /\ malformed => IsUndef(TempKey(ns[last.peer], ActNo(last.op)))
       /\ ~malformed => last.err \notin {ReadFailed(last.op), BadVersion(last.op)}

\* act 3 arrives with version 1 and a changed tag: the version is reported
C14_Witness ==
  /\ last.op = "receiveAct3"
  /\ last.arg = concat(<<fromBytes(<<1>>), last.wire[2][2], xor(last.wire[2][3])>>)
  /\ BufLen(last.arg) = 66
  /\ last.err = "ACT3_BAD_VERSION"

----------------------------------------------------------------------------
BadTag(op) ==
  IF op \in ReceiveActs
  THEN <<"ACT1_BAD_TAG", "ACT2_BAD_TAG", "ACT3_BAD_TAG">>[ActNo(op)]
  ELSE "TRANSPORT_BAD_TAG"

\* C15: a receiving operation that fails because the AEAD does not
\* authenticate (not for the length, the version, or a key that is no public
\* key) reports the error kind of its step: ACT1_BAD_TAG, ACT2_BAD_TAG,
\* ACT3_BAD_TAG, or TRANSPORT_BAD_TAG
C15_BadTagKinds ==
  (/\ last.op \in ReceiveOps
   /\ last.err \notin {"", TypeError, RangeError, EcdhError}
   /\ last.op \in ReceiveActs =>
         last.err \notin {ReadFailed(last.op), BadVersion(last.op)})
    => last.err = BadTag(last.op)

----------------------------------------------------------------------------
\* b is what the AEAD makes of plaintext pt: the encrypted pt and a 16-byte tag
Sealed(b, pt) == b[1] = "ccp" /\ b[5] = pt /\ BufLen(b) = BufLen(pt) + 16

\* C16: initiatorAct1 and recieveAct2 return 50 bytes: the version 0x00, the
\* sender's 33-byte epk and a 16-byte tag; initiatorAct3 returns 66 bytes: the
\* version 0x00, the 49 bytes of the encrypted lpk and a 16-byte tag
C16_WireLayout ==
  LET m == last.out
      o == ns[last.peer]
  IN /\ (last.op \in {"initiatorAct1", "recieveAct2"} /\ last.err = "") =>
          /\ BufLen(m) = 50
          /\ slice(m, 0, 1) = fromBytes(<<0>>)
          /\ slice(m, 1, 34) = o.epk /\ BufLen(o.epk) = 33
          /\ Sealed(slice(m, 34, 50), alloc(0))
     /\ (last.op = "initiatorAct3" /\ last.err = "") =>
          /\ BufLen(m) = 66
          /\ slice(m, 0, 1) = fromBytes(<<0>>)
          /\ Sealed(slice(m, 1, 50), o.lpk) /\ BufLen(o.lpk) = 33
          /\ Sealed(slice(m, 50, 66), alloc(0))

C16_Witness ==
  /\ last.op = "initiatorAct3"
  /\ last.err = ""
  /\ BufLen(last.out) = 66
  /\ BufLen(net.act3) = 66
  /\ drv["R"].acts = <<"receiveAct1", "recieveAct2">>

----------------------------------------------------------------------------
\* sha256(sha256(sha256(protocol_name) || prologue) || seeding_pub)
SeededHash(pub) ==
  sha256(concat(<<sha256(concat(<<sha256(protocolName), prologue>>)), pub>>))

\* the responder's _initialize has run and nothing after it
ResponderInitialized ==
  last.op = "receiveAct1" /\ last.err = "ACT1_READ_FAILED"

\* C17 as stated: after _initialize, ck equals h and both are the hash
\* seeded with the public key
C17_CkEqualsH ==
  ResponderInitialized =>
    /\ ns[last.peer].h = SeededHash(ns[last.peer].lpk)
    /\ ns[last.peer].ck = ns[last.peer].h

\* C17: after _initialize(seeding_pub), ck is sha256(protocol_name) and h is
\* sha256(sha256(ck || prologue) || seeding_pub), with the responder's lpk as
\* seeding_pub; the initiator's act 1 continues from the same two values
\* with rpk as seeding_pub
C17_InitializeSeeds ==
  /\ ResponderInitialized =>
       /\ ns[last.peer].ck = sha256(protocolName)
       /\ ns[last.peer].h = SeededHash(ns[last.peer].lpk)
       /\ ns[last.peer].ck # ns[last.peer].h
  /\ (last.op = "initiatorAct1" /\ last.err = "") =>
       LET o == ns[last.peer]
           c == slice(last.out, 34, 50)
       IN /\ o.ck = slice(hkdf(sha256(protocolName), ecdh(o.rpk, o.es)), 0, 32)
          /\ o.h = sha256(concat(<<sha256(concat(<<SeededHash(o.rpk), o.epk>>)),
                                   c>>))

C17_Witness ==
  /\ ResponderInitialized
  /\ ns["R"].h = SeededHash(ns["R"].lpk)
  /\ ns["R"].ck = sha256(protocolName)
  /\ ns["I"].rpk # ns["R"].lpk

----------------------------------------------------------------------------
\* a transport nonce: twelve bytes, zero but for a counter below 1000 in
\* bytes 4..5
NonceShape(n) ==
  /\ n[1] = "bytes"
  /\ Len(n[2]) = 12
  /\ \A i \in (1..4) \cup (7..12) : n[2][i] = 0
  /\ readUInt16LE(n, 4) \in 0..999

\* the AEAD operations that the call of this step made with p's key of
\* direction d
AeadOps(p, d) ==
  IF last'.n = last.n + 1 /\ last'.peer = p /\ last'.err = ""
  THEN CASE d = "enc" /\ last'.op = "encryptMessage" -> 2
         [] d = "dec" /\ last'.op \in {"decryptLength", "decryptMessage"} -> 1
         [] OTHER -> 0
  ELSE 0

\* the step of direction d's counter on p: up by one per AEAD operation, and
\* back to 0, with another key, when it reaches 1000
CounterStep(p, d, key, nonce, key2, nonce2) ==
  LET c == readUInt16LE(nonce, 4)
      c2 == readUInt16LE(nonce2, 4)
  IN /\ c2 = (c + AeadOps(p, d)) % 1000
     /\ c + AeadOps(p, d) < 1000 => key2 = key
     /\ c2 < c => c2 = 0 /\ key2 # key

\* C18: after act 3, sn and rn have bytes 0..3 and 6..11 zero and a counter
\* in 0..999 in bytes 4..5 between operations; every successful AEAD
\* operation raises its direction's counter by one, and the counter returns
\* to 0 only with a rotation of that direction's key
C18_NonceInvariant ==
  [][\A p \in Peers :
       /\ ~IsUndef(ns'[p].sn) => NonceShape(ns'[p].sn) /\ NonceShape(ns'[p].rn)
       /\ ~IsUndef(ns[p].sn) =>
            /\ CounterStep(p, "enc", ns[p].sk, ns[p].sn, ns'[p].sk, ns'[p].sn)
            /\ CounterStep(p, "dec", ns[p].rk, ns[p].rn, ns'[p].rk, ns'[p].rn)]_vars

\* the initiator has rotated sk once and counts from 0 again, while the
\* responder is one decryption short of rotating rk
C18_Witness ==
  /\ drv["I"].sent = 500
  /\ ns["I"].sn = alloc(12)
  /\ Len(uses["I"].enc) = 1
  /\ uses["I"].enc[1].key # ns["I"].sk
  /\ readUInt16LE(ns["R"].rn, 4) = 999
  /\ last.op = "decryptLength"

----------------------------------------------------------------------------
\* C19: a sending rotation sets ck to the first half and sk to the second
\* half of hkdf(old ck, old sk), sets sn to twelve zero bytes, and leaves rk
\* and rn unchanged; a receiving rotation does the same with rk and rn and
\* leaves sk and sn unchanged
C19_RotationEffect ==
  [][\A p \in Peers :
       LET o == ns[p]
           o2 == ns'[p]
       IN /\ (~IsUndef(o.sk) /\ o2.sk # o.sk) =>
               /\ o2.ck = slice(hkdf(o.ck, o.sk), 0, 32)
               /\ o2.sk = slice(hkdf(o.ck, o.sk), 32, 64)
               /\ o2.sn = alloc(12)
               /\ o2.rk = o.rk /\ o2.rn = o.rn
          /\ (~IsUndef(o.rk) /\ o2.rk # o.rk) =>
               /\ o2.ck = slice(hkdf(o.ck, o.rk), 0, 32)
               /\ o2.rk = slice(hkdf(o.ck, o.rk), 32, 64)
               /\ o2.rn = alloc(12)
               /\ o2.sk = o.sk /\ o2.sn = o.sn]_vars

\* the responder has just rotated rk, to the key the initiator rotated sk to
C19_Witness ==
  /\ last.op = "decryptMessage"
  /\ last.peer = "R"
  /\ Len(uses["R"].dec) = 1
  /\ uses["R"].dec[1].n = 1000
  /\ ns["R"].rk # uses["R"].dec[1].key
  /\ ns["R"].rk = ns["I"].sk
  /\ ns["R"].rn = alloc(12)
  /\ ns["R"].ck = ns["I"].ck

----------------------------------------------------------------------------
\* the initiator dials the responder's static key and the wire changes nothing
HonestRun == Unmodified /\ drv["I"].dial = ns["R"].lpk

\* both sides have done act k and no act after it
ActPairDone(k) == Len(drv["I"].acts) = k /\ Len(drv["R"].acts) = k

\* C20: when the initiator is seeded with the responder's lpk and the
\* messages are not modified, no act fails, and after each act pair the two
\* sides hold equal h and equal ck, and equal temp_k1, temp_k2 and temp_k3 as
\* far as derived
C20_TranscriptAgrees ==
  HonestRun =>
    /\ ~drv["I"].failed /\ ~drv["R"].failed
    /\ last.err = ""
    /\ \A k \in 1..3 :
         ActPairDone(k) =>
           /\ ~IsUndef(ns["I"].h) /\ ns["I"].h = ns["R"].h
           /\ ~IsUndef(ns["I"].ck) /\ ns["I"].ck = ns["R"].ck
           /\ \A n \in 1..k :
                /\ ~IsUndef(TempKey(ns["I"], n))
                /\ TempKey(ns["I"], n) = TempKey(ns["R"], n)

C20_Witness ==
  /\ HonestRun
  /\ ActPairDone(3)
  /\ ns["I"].h = ns["R"].h
  /\ ns["I"].tempK3 = ns["R"].tempK3
  /\ ns["I"].tempK3 # ns["I"].tempK2
  /\ ns["I"].ls # ns["R"].ls

----------------------------------------------------------------------------
\* C21: no (key, nonce) pair is used twice for encryption: the encryptions
\* of a NoiseState under one key use the counters 0, 1, 2, ... each once, and
\* a key that was left by a rotation is never used again
C21_NoNonceReuse ==
  \A p \in Peers :
    LET e == uses[p].enc
    IN /\ \A k \in 1..Len(e) : e[k].inOrder /\ e[k].n <= 1000
       /\ \A j, k \in 1..Len(e) : j # k => e[j].key # e[k].key

\* 1001 frames sent, under three keys
C21_Witness ==
  /\ last.op = "encryptMessage"
  /\ last.err = ""
  /\ drv["I"].sent = 1001
  /\ Len(uses["I"].enc) = 3
  /\ uses["I"].enc[1].n = 1000
  /\ uses["I"].enc[3].n = 2

----------------------------------------------------------------------------
\* the two parts of the frame returned by the last call, an encryptMessage
FrameLength == slice(last.out, 0, 18)

FrameBody == slice(last.out, 18, BufLen(last.out))

\* C22: the encrypted length and the encrypted body of one frame are made
\* under the same sending key, the length with an even counter and the body
\* with the next, odd, counter: the rotation check after the length
\* encryption never fires
C22_FrameUnderOneKey ==
  (last.op = "encryptMessage" /\ last.err = "") =>
    /\ FrameLength[2] = FrameBody[2]
    /\ readUInt16LE(FrameLength[3], 4) % 2 = 0
    /\ readUInt16LE(FrameBody[3], 4) = readUInt16LE(FrameLength[3], 4) + 1

\* the 500th frame: counters 998 and 999 under one key, rotated right after
C22_Witness ==
  /\ last.op = "encryptMessage"
  /\ last.err = ""
  /\ drv["I"].sent = 500
  /\ readUInt16LE(FrameLength[3], 4) = 998
  /\ readUInt16LE(FrameBody[3], 4) = 999
  /\ FrameLength[2] = FrameBody[2]
  /\ ns["I"].sk # FrameBody[2]

----------------------------------------------------------------------------
\* C23: a decryptLength or decryptMessage that fails authentication changes
\* nothing: rk, rn, ck, sk and sn, and every other field of the object, are
\* as before the call
C23_FailedDecryptNoChange ==
  [][(/\ last'.n = last.n + 1
      /\ last'.op \in {"decryptLength", "decryptMessage"}
      /\ last'.err = AuthError)
       => ns'[last'.peer] = ns[last'.peer]]_vars

\* the length of the second frame is refused while the body of the first is
\* due, and rn still counts one
C23_Witness ==
  /\ last.op = "decryptLength"
  /\ last.err = AuthError
  /\ last.at = <<2, "length">>
  /\ last.arg = last.wire
  /\ drv["R"].got = <<<<1, "length">>>>
  /\ readUInt16LE(ns["R"].rn, 4) = 1

====
